---------------------------- MODULE Spec2Model ----------------------------
(***************************************************************************)
(* Model of postgres-binary-copy (src/src/lib.rs): BinaryCopyReader, the   *)
(* encoder that turns a row-major value sequence into the COPY BINARY byte *)
(* stream, and BinaryCopyWriter, the decoder that turns such a byte stream *)
(* into calls of a value sink.                                             *)
(*                                                                         *)
(* Bytes are the integers 0..255.  A usize is kept as an integer modulo    *)
(* 2^64 of which a negative number v stands for 2^64 + v (what `as usize`  *)
(* gives for a negative i16/i32 on a 64-bit target): TLC's integers stop   *)
(* at 2^31 - 1, and the model's buffers are far shorter than that, so      *)
(* only comparisons (UMin) have to know about the representation.          *)
(***************************************************************************)
EXTENDS Integers, Sequences, FiniteSets, TLC

VARIABLES
    overflow_checks, \* build profile: TRUE = arithmetic overflow panics (debug)
    types_len,       \* BinaryCopyReader.types.len()
    values,          \* the value sequence the source was created with
    it,              \* BinaryCopyReader.it: the values not yet pulled
    r_state,         \* BinaryCopyReader.state
    r_buf,           \* BinaryCopyReader.buf: the Vec under the cursor
    r_pos,           \* BinaryCopyReader.buf: the cursor position
    output,          \* every byte read_with_info has returned, in order
    r_last,          \* the last read_with_info call: arguments, state before, result
    r_failed,        \* a read_with_info call returned Err or panicked: the driver stops
    r_eof,           \* a call with a non-empty destination returned Ok(0)
    w_state,         \* BinaryCopyWriter.state
    has_oids,        \* BinaryCopyWriter.has_oids
    w_buf,           \* BinaryCopyWriter.buf
    calls,           \* the calls the value sink has received, in order
    sink_fails,      \* the sink returns Err on the calls with these numbers
    stream,          \* the byte stream the transport delivers to the decoder
    rest,            \* the part of the stream not yet cut into a chunk
    chunk,           \* the unconsumed remainder of the current chunk
    w_last,          \* the last write_with_info call: input, state before, result
    w_failed,        \* some write_with_info call returned Err
    w_panicked,      \* a write_with_info call panicked
    strict,          \* the driver made no call with empty input and none after a failure
    starved,         \* some call was offered fewer bytes than its unit still needed
    last_tuple,      \* the last field count read_tuple read, and the sink calls made before it
    fatal            \* a call failed with a format error, and the sink calls made until then

rvars == <<types_len, values, it, r_state, r_buf, r_pos, output, r_last, r_failed, r_eof>>

wvars == <<w_state, has_oids, w_buf, calls, sink_fails, stream, rest, chunk,
           w_last, w_failed, w_panicked, strict, starved, last_tuple, fatal>>

vars == <<overflow_checks, rvars, wvars>>

----------------------------------------------------------------------------
(* Bounds of the model *)

\* longest value sequence a source yields
MaxVals == 4

\* length of the large payload (two significant bytes in its length prefix)
BigLen == 258

\* largest transport chunk tried besides 1, 7 and all that is left
MaxChunk == 19

----------------------------------------------------------------------------
(* Integers and bytes *)

Min(a, b) == IF a <= b THEN a ELSE b

I16_MAX == 32767

\* min of two usize of which only a can be >= 2^63 (negative representation)
UMin(a, b) == IF a < 0 THEN b ELSE Min(a, b)

\* the usize a - b; FALSE when the subtraction overflows (a < b as usize)
USubOverflows(a, b) == a >= 0 /\ (b < 0 \/ b > a)

\* byteorder write_i16::<BigEndian>
WriteI16Bytes(v) == <<(v \div 256) % 256, v % 256>>

\* byteorder write_i32::<BigEndian>
WriteI32Bytes(v) == <<(v \div 16777216) % 256, (v \div 65536) % 256, (v \div 256) % 256, v % 256>>

\* bit k (0..31) of the i32 v in two's complement
BitOf(v, k) == IF k = 31 THEN (IF v < 0 THEN 1 ELSE 0) ELSE (v \div (2 ^ k)) % 2

Signed8(b) == IF b >= 128 THEN b - 256 ELSE b

\* byteorder read_i16::<BigEndian> of the first 2 bytes of b; needs Len(b) >= 2
ReadI16(b) == Signed8(b[1]) * 256 + b[2]

\* byteorder read_i32::<BigEndian> of the first 4 bytes of b; needs Len(b) >= 4
ReadI32(b) == Signed8(b[1]) * 16777216 + b[2] * 65536 + b[3] * 256 + b[4]

\* b"PGCOPY\n\xff\r\n\0"
HEADER_MAGIC == <<80, 71, 67, 79, 80, 89, 10, 255, 13, 10, 0>>

Take(s, n) == SubSeq(s, 1, Min(n, Len(s)))

Drop(s, n) == SubSeq(s, Min(n, Len(s)) + 1, Len(s))

\* Cursor<Vec<u8>>::write: overwrite from pos, extending the Vec as needed
CursorWrite(buf, pos, bytes) ==
    [buf |-> Take(buf, pos) \o bytes \o Drop(buf, pos + Len(bytes)),
     pos |-> pos + Len(bytes)]

----------------------------------------------------------------------------
(* Results of a call *)

Ok(n) == [kind |-> "Ok", n |-> n, msg |-> ""]

Err(msg) == [kind |-> "Err", n |-> 0, msg |-> msg]

Panic(msg) == [kind |-> "Panic", n |-> 0, msg |-> msg]

----------------------------------------------------------------------------
(* The value source and the values (ToSql) *)

NullValue == [kind |-> "null", bytes |-> <<>>]

BytesValue(b) == [kind |-> "bytes", bytes |-> b]

\* a value whose conversion fails
ErrValue == [kind |-> "err", bytes |-> <<>>]

BigPayload == [i \in 1..BigLen |-> i % 256]

Values == {NullValue, BytesValue(<<>>), BytesValue(<<7>>)}

\* sequences with the large payload, and with a value whose conversion fails
SpecialSeqs ==
    {<<BytesValue(BigPayload)>>, <<NullValue, BytesValue(BigPayload)>>,
     <<ErrValue>>, <<BytesValue(<<7>>), ErrValue>>}

ValueSeqs == UNION {[1..n -> Values] : n \in 0..MaxVals} \cup SpecialSeqs

\* the column counts tried: none, one to three, i16::MAX and one past it
ColumnCounts == {0, 1, 2, 3, I16_MAX, I16_MAX + 1}

\* ToSql::to_sql_checked: what the value writes and whether it is null
\* (a value that reports itself null writes nothing: the ToSql contract)
ToSqlChecked(value) ==
    CASE value.kind = "null" -> [res |-> "IsNull::Yes", bytes |-> <<>>]
      [] value.kind = "bytes" -> [res |-> "IsNull::No", bytes |-> value.bytes]
      [] OTHER -> [res |-> "Err", bytes |-> <<>>]

----------------------------------------------------------------------------
(* BinaryCopyReader *)

ReadHeader == [tag |-> "Header", idx |-> 0]

Body(idx) == [tag |-> "Body", idx |-> idx]

ReadFooter == [tag |-> "Footer", idx |-> 0]

OpValue(idx, value) == [kind |-> "Value", idx |-> idx, value |-> value]

OpFooter == [kind |-> "Footer", idx |-> 0, value |-> NullValue]

OpNothing == [kind |-> "Nothing", idx |-> 0, value |-> NullValue]

\* a reader as a record of its fields
Reader(len, st, src, buf, pos) ==
    [types_len |-> len, state |-> st, it |-> src, buf |-> buf, pos |-> pos]

\* BinaryCopyReader::new
NewReader(len, src) ==
    Reader(len, ReadHeader, src, HEADER_MAGIC \o WriteI32Bytes(0) \o WriteI32Bytes(0), 0)

\* the index of the field after old_idx: (old_idx + 1) % self.types.len()
NextIdx(old_idx, len) == (old_idx + 1) % len

\* fill_buf staging the footer again in state Footer
FooterArmAgain == OpFooter

\* the op fill_buf chooses in state Footer, whatever the source returns
FooterArm == OpNothing

\* the match of fill_buf on (self.state, self.it.next()): the new state and the op
FillOp(r) ==
    LET some == r.it # <<>> IN
    CASE r.state.tag = "Header" /\ some -> [state |-> Body(0), op |-> OpValue(0, Head(r.it))]
      [] r.state.tag = "Body" /\ some ->
            [state |-> Body(NextIdx(r.state.idx, r.types_len)),
             op |-> OpValue(NextIdx(r.state.idx, r.types_len), Head(r.it))]
      [] r.state.tag \in {"Header", "Body"} /\ ~some -> [state |-> ReadFooter, op |-> OpFooter]
      [] OTHER -> [state |-> r.state, op |-> FooterArm]

\* the prefix computed without taking off the 4 reserved bytes
LenPrefixWithReserved(tosql, payload_len) ==
    IF tosql.res = "IsNull::Yes" THEN -1 ELSE payload_len + 4

\* the 4-byte length prefix fill_buf writes back at len_pos
LenPrefix(tosql, payload_len) == IF tosql.res = "IsNull::Yes" THEN -1 ELSE payload_len

\* the field count written before the second field instead of the first
EmitsTupleCountAtOne(idx) == idx = 1

\* whether fill_buf writes the tuple field count before the field: idx == 0
EmitsTupleCount(idx) == idx = 0

\* the limit tested against the unsigned 16-bit maximum
TooWideUnsigned(len) == len > 2 * I16_MAX + 1

\* the schema is too wide for the field count: len > i16::max_value() as usize
TooWide(len) == len > I16_MAX

\* the Op::Value arm of fill_buf, from the cleared buffer
FillValue(r, op) ==
    LET tooWide == EmitsTupleCount(op.idx) /\ TooWide(r.types_len)
        c0 == IF EmitsTupleCount(op.idx) THEN CursorWrite(<<>>, 0, WriteI16Bytes(r.types_len))
              ELSE [buf |-> <<>>, pos |-> 0]
        len_pos == c0.pos
        c1 == CursorWrite(c0.buf, c0.pos, WriteI32Bytes(0))
        tosql == ToSqlChecked(op.value)
        c2 == CursorWrite(c1.buf, c1.pos, tosql.bytes)
        len == c2.pos - 4 - len_pos
        c3 == CursorWrite(c2.buf, len_pos, WriteI32Bytes(LenPrefix(tosql, len)))
    IN  IF tooWide
        THEN [r |-> [r EXCEPT !.buf = <<>>, !.pos = 0], res |-> Err("value too large to transmit")]
        ELSE IF op.idx >= r.types_len
        THEN [r |-> [r EXCEPT !.buf = c1.buf, !.pos = c1.pos], res |-> Panic("index out of bounds")]
        ELSE IF tosql.res = "Err"
        THEN [r |-> [r EXCEPT !.buf = c2.buf, !.pos = c2.pos], res |-> Err("conversion")]
        ELSE [r |-> [r EXCEPT !.buf = c3.buf, !.pos = 0], res |-> Ok(0)]

\* the end of the source staging no footer at all
FooterBytesNone == <<>>

\* what the Op::Footer arm of fill_buf stages: write_i16::<BigEndian>(-1)
FooterBytes == WriteI16Bytes(-1)

\* whether fill_buf calls self.it.next() in state st: the scrutinee
\* (self.state, self.it.next()) is evaluated before an arm is chosen
PullsSource(st) == TRUE

\* BinaryCopyReader::fill_buf
FillBuf(r) ==
    IF r.state.tag = "Body" /\ r.it # <<>> /\ r.types_len = 0
    THEN [r |-> [r EXCEPT !.it = Tail(r.it)], res |-> Panic("remainder with a divisor of zero"), op |-> OpNothing]
    ELSE LET m == FillOp(r)
             r1 == [r EXCEPT !.state = m.state,
                             !.it = IF r.it = <<>> THEN <<>> ELSE Tail(r.it),
                             !.buf = <<>>, !.pos = 0]
         IN  CASE m.op.kind = "Value" ->
                    LET f == FillValue(r1, m.op) IN [r |-> f.r, res |-> f.res, op |-> m.op]
               [] m.op.kind = "Footer" ->
                    [r |-> [r1 EXCEPT !.buf = FooterBytes], res |-> Ok(0), op |-> m.op]
               [] OTHER -> [r |-> r1, res |-> Ok(0), op |-> m.op]

\* Cursor::read into a destination of dest bytes: the bytes copied
CursorRead(r, dest) == SubSeq(r.buf, r.pos + 1, Min(Len(r.buf), r.pos + dest))

\* a refill while one staged byte is still undelivered
NeedsFillEarly(r) == r.pos + 1 >= Len(r.buf)

\* whether read_with_info refills: self.buf.position() == self.buf.get_ref().len()
NeedsFill(r) == r.pos = Len(r.buf)

\* BinaryCopyReader::read_with_info with a destination of dest bytes
ReadWithInfo(r, dest) ==
    LET f == IF NeedsFill(r) THEN FillBuf(r) ELSE [r |-> r, res |-> Ok(0), op |-> OpNothing]
        out == CursorRead(f.r, dest)
    IN  IF f.res.kind # "Ok"
        THEN [r |-> f.r, res |-> f.res, out |-> <<>>, filled |-> NeedsFill(r), op |-> f.op,
              pulled |-> NeedsFill(r) /\ PullsSource(r.state)]
        ELSE [r |-> [f.r EXCEPT !.pos = f.r.pos + Len(out)], res |-> Ok(Len(out)), out |-> out,
              filled |-> NeedsFill(r), op |-> f.op,
              pulled |-> NeedsFill(r) /\ PullsSource(r.state)]

----------------------------------------------------------------------------
(* The value sink (WriteValue) *)

\* one call of the sink: write_null_value, or write_value with the bytes in view
SinkCall(path, bytes, ok) == [path |-> path, bytes |-> bytes, ok |-> ok]

\* the sink's answer to its next call: Err on the calls numbered in fails
SinkOk(d, fails) == (Len(d.calls) + 1) \notin fails

----------------------------------------------------------------------------
(* BinaryCopyWriter *)

AtHeader == [tag |-> "AtHeader", size |-> 0, remaining |-> 0]

AtTuple == [tag |-> "AtTuple", size |-> 0, remaining |-> 0]

AtFieldSize(remaining) == [tag |-> "AtFieldSize", size |-> 0, remaining |-> remaining]

AtField(size, remaining) == [tag |-> "AtField", size |-> size, remaining |-> remaining]

Done == [tag |-> "Done", size |-> 0, remaining |-> 0]

\* a writer as a record of its fields, with the calls its sink has received
Writer(st, oids, buf, cs) == [state |-> st, has_oids |-> oids, buf |-> buf, calls |-> cs]

\* BinaryCopyWriter::new
NewWriter == Writer(AtHeader, FALSE, <<>>, <<>>)

\* HEADER_MAGIC.len() + mem::size_of::<i32>() * 2
HeaderSize == Len(HEADER_MAGIC) + 4 * 2

\* the `done` flag read_to returns: nread == to_read
ReadToDone(nread, to_read, buf_len, size) == nread = to_read

\* read_to taking all of the input, whatever the unit still needs
ToReadAll(size, buf_len, input_len) == input_len

\* the number of input bytes read_to takes: cmp::min(size - self.buf.len(), buf.len())
ToRead(size, buf_len, input_len) == UMin(size - buf_len, input_len)

\* BinaryCopyWriter::read_to: Vec::write takes all of &buf[..to_read]
ReadTo(d, buf, size, oc) ==
    LET to_read == ToRead(size, Len(d.buf), Len(buf))
        nread == to_read
        newbuf == d.buf \o Take(buf, to_read)
    IN  [panic |-> oc /\ USubOverflows(size, Len(d.buf)),
         buf |-> IF oc /\ USubOverflows(size, Len(d.buf)) THEN d.buf ELSE newbuf,
         done |-> ReadToDone(nread, to_read, Len(newbuf), size),
         nread |-> nread]

\* the rejected bits taken from bit 16 on: !0 << 16
CriticalFlagsFrom16(flags) == \E k \in 16..31 : BitOf(flags, k) = 1

\* the flag bits read_header rejects: (flags & !0 << 17) != 0
CriticalFlags(flags) == \E k \in 17..31 : BitOf(flags, k) = 1

\* the flag bit read_header records: (flags & 1 << 16) != 0
OidsFlag(flags) == BitOf(flags, 16) = 1

\* a format error that also drops the bytes accumulated so far
HeaderErrorReset(d, msg) == [d |-> [d EXCEPT !.buf = <<>>], res |-> Err(msg)]

\* the return Err(..) of read_header: self.buf and self.state stay as they are
HeaderError(d, msg) == [d |-> d, res |-> Err(msg)]

\* BinaryCopyWriter::read_header
ReadHeaderBytes(d, buf, oc) ==
    LET t == ReadTo(d, buf, HeaderSize, oc)
        d1 == [d EXCEPT !.buf = t.buf]
        flags == ReadI32(Drop(d1.buf, Len(HEADER_MAGIC)))
        d2 == [d1 EXCEPT !.has_oids = OidsFlag(flags)]
    IN  IF t.panic THEN [d |-> d1, res |-> Panic("attempt to subtract with overflow")]
        ELSE IF ~t.done THEN [d |-> d1, res |-> Ok(t.nread)]
        ELSE IF Len(d1.buf) < Len(HEADER_MAGIC)
        THEN [d |-> d1, res |-> Panic("slice index out of range")]
        ELSE IF Take(d1.buf, Len(HEADER_MAGIC)) # HEADER_MAGIC
        THEN HeaderError(d1, "Did not receive expected header")
        ELSE IF Len(d1.buf) - Len(HEADER_MAGIC) < 4
        THEN [d |-> d1, res |-> Err("unexpected EOF")]
        ELSE IF CriticalFlags(flags)
        THEN HeaderError(d2, "Critical file format issue")
        ELSE [d |-> [d2 EXCEPT !.buf = <<>>, !.state = AtTuple], res |-> Ok(t.nread)]

\* tuple_size += 1 on an i16: overflows at i16::MAX
TupleSizePlusOids(tuple_size) == IF tuple_size = I16_MAX THEN -I16_MAX - 1 ELSE tuple_size + 1

\* the end-of-data test against the unsigned reading of the two bytes
IsFooterUnsigned(tuple_size) == tuple_size = 65535

\* the end-of-data test of read_tuple: tuple_size == -1
IsFooter(tuple_size) == tuple_size = -1

\* BinaryCopyWriter::read_tuple
ReadTuple(d, buf, oc) ==
    LET t == ReadTo(d, buf, 2, oc)
        d1 == [d EXCEPT !.buf = t.buf]
        tuple_size == ReadI16(d1.buf)
        d2 == [d1 EXCEPT !.buf = <<>>]
    IN  IF t.panic THEN [d |-> d1, res |-> Panic("attempt to subtract with overflow")]
        ELSE IF ~t.done THEN [d |-> d1, res |-> Ok(t.nread)]
        ELSE IF Len(d1.buf) < 2 THEN [d |-> d1, res |-> Err("unexpected EOF")]
        ELSE IF IsFooter(tuple_size) THEN [d |-> [d2 EXCEPT !.state = Done], res |-> Ok(t.nread)]
        ELSE IF d.has_oids /\ tuple_size = I16_MAX /\ oc
        THEN [d |-> d2, res |-> Panic("attempt to add with overflow")]
        ELSE [d |-> [d2 EXCEPT !.state = AtFieldSize(IF d.has_oids
                                                     THEN TupleSizePlusOids(tuple_size)
                                                     ELSE tuple_size)],
              res |-> Ok(t.nread)]

\* advance_field_state returning to the tuple header one field late
AdvanceFieldStateLate(remaining, oc) ==
    IF remaining = 0 THEN [panic |-> FALSE, state |-> AtTuple]
    ELSE [panic |-> FALSE, state |-> AtFieldSize(remaining - 1)]

\* BinaryCopyWriter::advance_field_state; remaining - 1 overflows at 0
AdvanceFieldState(remaining, oc) ==
    IF remaining = 1 THEN [panic |-> FALSE, state |-> AtTuple]
    ELSE [panic |-> oc /\ remaining = 0, state |-> AtFieldSize(remaining - 1)]

\* a sink error returned after the field was counted
SinkErrorCounted(d, adv) == [d |-> [d EXCEPT !.state = adv.state], res |-> Err("sink")]

\* try! on the sink's result: the Err is returned before advance_field_state
SinkError(d, adv) == [d |-> d, res |-> Err("sink")]

\* BinaryCopyWriter::read_field_size
ReadFieldSize(d, buf, remaining, fails, oc) ==
    LET t == ReadTo(d, buf, 4, oc)
        d1 == [d EXCEPT !.buf = t.buf]
        field_size == ReadI32(d1.buf)
        d2 == [d1 EXCEPT !.buf = <<>>]
        d3 == [d2 EXCEPT !.calls = Append(d.calls, SinkCall("null", <<>>, SinkOk(d, fails)))]
        adv == AdvanceFieldState(remaining, oc)
    IN  IF t.panic THEN [d |-> d1, res |-> Panic("attempt to subtract with overflow")]
        ELSE IF ~t.done THEN [d |-> d1, res |-> Ok(t.nread)]
        ELSE IF Len(d1.buf) < 4 THEN [d |-> d1, res |-> Err("unexpected EOF")]
        ELSE IF field_size = -1
        THEN IF ~SinkOk(d, fails) THEN SinkError(d3, adv)
             ELSE IF adv.panic THEN [d |-> d3, res |-> Panic("attempt to subtract with overflow")]
             ELSE [d |-> [d3 EXCEPT !.state = adv.state], res |-> Ok(t.nread)]
        ELSE [d |-> [d2 EXCEPT !.state = AtField(field_size, remaining)], res |-> Ok(t.nread)]

\* BinaryCopyWriter::read_field
ReadField(d, buf, size, remaining, fails, oc) ==
    LET t == ReadTo(d, buf, size, oc)
        d1 == [d EXCEPT !.buf = t.buf]
        d2 == [d1 EXCEPT !.calls = Append(d.calls, SinkCall("value", d1.buf, SinkOk(d, fails)))]
        adv == AdvanceFieldState(remaining, oc)
    IN  IF t.panic THEN [d |-> d1, res |-> Panic("attempt to subtract with overflow")]
        ELSE IF ~t.done THEN [d |-> d1, res |-> Ok(t.nread)]
        ELSE IF ~SinkOk(d, fails) THEN SinkError(d2, adv)
        ELSE IF adv.panic
        THEN [d |-> [d2 EXCEPT !.buf = <<>>], res |-> Panic("attempt to subtract with overflow")]
        ELSE [d |-> [d2 EXCEPT !.buf = <<>>, !.state = adv.state], res |-> Ok(t.nread)]

\* the WriteState::Done arm of write_with_info
AfterEnd(d) == [d |-> d, res |-> Err("Unexpected input after stream end")]

\* BinaryCopyWriter::write_with_info
WriteWithInfo(d, buf, fails, oc) ==
    CASE d.state.tag = "AtHeader" -> ReadHeaderBytes(d, buf, oc)
      [] d.state.tag = "AtTuple" -> ReadTuple(d, buf, oc)
      [] d.state.tag = "AtFieldSize" -> ReadFieldSize(d, buf, d.state.remaining, fails, oc)
      [] d.state.tag = "AtField" ->
            ReadField(d, buf, d.state.size, d.state.remaining, fails, oc)
      [] OTHER -> AfterEnd(d)

----------------------------------------------------------------------------
(* The byte streams offered to the decoder on its own *)

Header(flags) == HEADER_MAGIC \o WriteI32Bytes(flags) \o WriteI32Bytes(0)

\* a header whose signature differs in its first, or only in its last, byte
BadHeaders ==
    {<<88>> \o Tail(Header(0)),
     [Header(0) EXCEPT ![Len(HEADER_MAGIC)] = 1]}

Footer == WriteI16Bytes(-1)

TupleCount(c) == WriteI16Bytes(c)

NullField == WriteI32Bytes(-1)

Field(bytes) == WriteI32Bytes(Len(bytes)) \o bytes

\* well-formed bodies: tuples of one or two fields, then the footer
GoodBodies ==
    {Footer,
     TupleCount(1) \o Field(<<7>>) \o Footer,
     TupleCount(2) \o NullField \o Field(<<1, 2>>) \o TupleCount(2) \o Field(<<>>) \o NullField \o Footer}

\* bodies with a field count of 0 or below -1, a field length below -1, or bytes after the footer
OddBodies ==
    {TupleCount(0) \o Footer,
     TupleCount(0) \o NullField \o Footer,
     TupleCount(0) \o TupleCount(1) \o Field(<<5>>) \o Footer,
     TupleCount(-2) \o NullField \o Footer,
     TupleCount(1) \o WriteI32Bytes(-2) \o <<1, 2>> \o Footer,
     TupleCount(1) \o Field(<<7>>) \o Footer \o <<0>>}

\* bodies of a stream with OIDs: a leading OID field in each tuple
OidBodies ==
    {TupleCount(1) \o Field(<<0, 0, 0, 9>>) \o Field(<<7>>) \o Footer,
     TupleCount(0) \o Field(<<0, 0, 0, 9>>) \o Footer,
     TupleCount(I16_MAX) \o NullField \o Footer,
     TupleCount(-2) \o NullField \o Footer}

OidsBit == 65536

\* flags with one bit other than bit 16 set: bits 0, 15, 17 and 31
OtherFlags == {1, 32768, OidsBit + 8, 131072, OidsBit + 131072, -I16_MAX - I16_MAX - 2147418114}

Streams ==
    {Header(0) \o b : b \in GoodBodies \cup OddBodies}
    \cup {Header(OidsBit) \o b : b \in OidBodies}
    \cup {Header(f) \o TupleCount(1) \o Field(<<7>>) \o Footer : f \in OtherFlags}
    \cup {h \o Footer : h \in BadHeaders}
    \cup {Take(HEADER_MAGIC, 5)}

\* the chunk sizes the transport cuts: 1, 7, MaxChunk less the 4 bytes of the
\* header extension length, MaxChunk, or all that is left
ChunkSizes(left) == {1, 7, MaxChunk - 4, MaxChunk, left}

\* the destination sizes read_with_info is called with
DestSizes == {0, 1, 3, 4096}

\* a stream and the sink calls that fail: none, or one call of a well-formed stream
DecInputs ==
    {<<s, {}>> : s \in Streams}
    \cup {<<Header(0) \o b, f>> : b \in GoodBodies, f \in {{1}, {2}}}

----------------------------------------------------------------------------
(* State *)

CurReader == Reader(types_len, r_state, it, r_buf, r_pos)

CurWriter == Writer(w_state, has_oids, w_buf, calls)

\* what is kept of a reader before a call: its state, cursor and buffer length
ReaderView(r) == [state |-> r.state, pos |-> r.pos, len |-> Len(r.buf)]

NoReadCall ==
    [called |-> FALSE, dest |-> 0, pre |-> ReaderView(NewReader(0, <<>>)), res |-> Ok(0),
     op |-> OpNothing, filled |-> FALSE, pulled |-> FALSE, out |-> <<>>]

NoWriteCall ==
    [called |-> FALSE, first |-> FALSE, input |-> <<>>, pre |-> NewWriter, res |-> Ok(0)]

NoTuple == [seen |-> FALSE, count |-> 0, oids |-> FALSE, at |-> 0]

NoFatal == [set |-> FALSE, at |-> 0]

\* the messages of the format errors: bad signature, critical flag bit, input after the end
FormatErrors ==
    {"Did not receive expected header", "Critical file format issue",
     "Unexpected input after stream end"}

\* the size of the unit the writer is accumulating: what its state passes to read_to
UnitSize(st) ==
    CASE st.tag = "AtHeader" -> HeaderSize
      [] st.tag = "AtTuple" -> 2
      [] st.tag = "AtFieldSize" -> 4
      [] st.tag = "AtField" -> st.size
      [] OTHER -> 0

\* the bytes in the writer's buffer once read_to has taken its share of input
Accumulated(d, input) == d.buf \o Take(input, UMin(UnitSize(d.state) - Len(d.buf), Len(input)))

\* the call offers fewer bytes than the unit still needs
Starves(d, input) ==
    /\ d.state.tag # "Done"
    /\ \/ UnitSize(d.state) < 0
       \/ UnitSize(d.state) - Len(d.buf) > Len(input)

InitReader(len, src) ==
    /\ types_len = len
    /\ values = src
    /\ it = src
    /\ r_state = NewReader(len, src).state
    /\ r_buf = NewReader(len, src).buf
    /\ r_pos = NewReader(len, src).pos
    /\ output = <<>>
    /\ r_last = NoReadCall
    /\ r_failed = FALSE
    /\ r_eof = FALSE

InitWriter(s, fails) ==
    /\ w_state = NewWriter.state
    /\ has_oids = NewWriter.has_oids
    /\ w_buf = NewWriter.buf
    /\ calls = NewWriter.calls
    /\ sink_fails = fails
    /\ stream = s
    /\ rest = s
    /\ chunk = <<>>
    /\ w_last = NoWriteCall
    /\ w_failed = FALSE
    /\ w_panicked = FALSE
    /\ strict = TRUE
    /\ starved = FALSE
    /\ last_tuple = NoTuple
    /\ fatal = NoFatal

\* an encoder over any schema and value sequence; its output goes to a fresh decoder
Init ==
    /\ overflow_checks = TRUE
    /\ \E len \in ColumnCounts, src \in ValueSeqs : InitReader(len, src)
    /\ InitWriter(<<>>, {})

\* a decoder alone, fed one of Streams by the transport
InitDec ==
    /\ overflow_checks \in BOOLEAN
    /\ InitReader(1, <<>>)
    /\ \E i \in DecInputs : InitWriter(i[1], i[2])

----------------------------------------------------------------------------
(* Actions *)

\* one call of read_with_info with a destination of dest bytes
Read(dest) ==
    /\ ~r_failed
    /\ stream = <<>>
    /\ \E c \in {ReadWithInfo(CurReader, dest)} :
        /\ it' = c.r.it
        /\ r_state' = c.r.state
        /\ r_buf' = c.r.buf
        /\ r_pos' = c.r.pos
        /\ output' = output \o c.out
        /\ r_last' = [called |-> TRUE, dest |-> dest, pre |-> ReaderView(CurReader), res |-> c.res,
                      op |-> c.op, filled |-> c.filled, pulled |-> c.pulled, out |-> c.out]
        /\ r_failed' = (r_failed \/ c.res.kind # "Ok")
        /\ r_eof' = (r_eof \/ (dest > 0 /\ c.res = Ok(0)))
    /\ UNCHANGED <<overflow_checks, types_len, values, wvars>>

\* the complete output of the encoder is handed to the decoder as one buffer
Feed ==
    /\ r_eof
    /\ ~r_failed
    /\ stream = <<>>
    /\ stream' = output
    /\ chunk' = output
    /\ UNCHANGED <<overflow_checks, rvars, w_state, has_oids, w_buf, calls, sink_fails, rest,
                   w_last, w_failed, w_panicked, strict, starved, last_tuple, fatal>>

\* the transport delivers the next chunk, of k bytes
Cut(k) ==
    /\ chunk = <<>>
    /\ rest # <<>>
    /\ ~w_panicked
    /\ chunk' = Take(rest, k)
    /\ rest' = Drop(rest, k)
    /\ UNCHANGED <<overflow_checks, rvars, w_state, has_oids, w_buf, calls, sink_fails, stream,
                   w_last, w_failed, w_panicked, strict, starved, last_tuple, fatal>>

\* one call of write_with_info with input; the driver drops the bytes it took
WriteCall(input) ==
    /\ ~w_panicked
    /\ \E c \in {WriteWithInfo(CurWriter, input, sink_fails, overflow_checks)} :
        /\ w_state' = c.d.state
        /\ has_oids' = c.d.has_oids
        /\ w_buf' = c.d.buf
        /\ calls' = c.d.calls
        /\ chunk' = IF c.res.kind = "Ok" THEN Drop(chunk, c.res.n) ELSE chunk
        /\ w_last' = [called |-> TRUE, first |-> ~w_last.called, input |-> input,
                      pre |-> CurWriter, res |-> c.res]
        /\ w_failed' = (w_failed \/ c.res.kind = "Err")
        /\ w_panicked' = (c.res.kind = "Panic")
        /\ strict' = (strict /\ ~w_failed /\ input # <<>>)
        /\ starved' = (starved \/ Starves(CurWriter, input))
        /\ last_tuple' = IF w_state.tag = "AtTuple" /\ c.d.state.tag # "AtTuple"
                         THEN [seen |-> TRUE, count |-> ReadI16(Accumulated(CurWriter, input)),
                               oids |-> has_oids, at |-> Len(calls)]
                         ELSE last_tuple
        /\ fatal' = IF ~fatal.set /\ c.res.kind = "Err" /\ c.res.msg \in FormatErrors
                    THEN [set |-> TRUE, at |-> Len(c.d.calls)]
                    ELSE fatal
    /\ UNCHANGED <<overflow_checks, rvars, sink_fails, stream, rest>>

\* after a format error the driver gives up the rest of the chunk and goes on
\* with what the transport delivers next
Skip ==
    /\ fatal.set
    /\ ~w_panicked
    /\ chunk # <<>>
    /\ chunk' = <<>>
    /\ strict' = FALSE
    /\ UNCHANGED <<overflow_checks, rvars, w_state, has_oids, w_buf, calls, sink_fails, stream,
                   rest, w_last, w_failed, w_panicked, starved, last_tuple, fatal>>

\* the driver offers the unconsumed remainder of the current chunk
Write ==
    /\ chunk # <<>>
    /\ WriteCall(chunk)

\* a call with no input at all
WriteEmpty ==
    /\ stream # <<>>
    /\ chunk = <<>>
    /\ WriteCall(<<>>)

Next ==
    \/ \E dest \in DestSizes : Read(dest)
    \/ Feed
    \/ Write

NextDec ==
    \/ \E k \in ChunkSizes(Len(rest)) : Cut(k)
    \/ Write
    \/ WriteEmpty
    \/ Skip

Spec == Init /\ [][Next]_vars

\* a call of read_with_info with a non-empty destination
ReadSome == \E dest \in DestSizes \ {0} : Read(dest)

\* ENABLED <<ReadSome>>_vars as a state predicate: a call is possible, and
\* one with a destination size other than the last one's changes r_last
ReadSomeEnabled == ~r_failed /\ stream = <<>>

\* weak fairness of ReadSome, with its enabling condition written out: the
\* caller of the encoder keeps reading with a non-empty destination as long
\* as no call has failed and the output has not been handed on
ReadSomeFair == []<>(~ReadSomeEnabled) \/ []<><<ReadSome>>_vars

SpecLive == Init /\ [][Next]_vars /\ ReadSomeFair

SpecDec == InitDec /\ [][NextDec]_vars

----------------------------------------------------------------------------
(* The wire format as the protocol states it, written out byte by byte *)

WireHeader == <<80, 71, 67, 79, 80, 89, 10, 255, 13, 10, 0>> \o <<0, 0, 0, 0>> \o <<0, 0, 0, 0>>

WireFooter == <<255, 255>>

WireCount(c) == <<c \div 256, c % 256>>

WireLength(n) == <<n \div 16777216, (n \div 65536) % 256, (n \div 256) % 256, n % 256>>

WireField(v) == IF v.kind = "null" THEN <<255, 255, 255, 255>> ELSE WireLength(Len(v.bytes)) \o v.bytes

RECURSIVE WireRows(_, _, _)
\* the rows of vals from value i on: a field count before each c-th value
WireRows(c, vals, i) ==
    IF i > Len(vals) THEN <<>>
    ELSE (IF (i - 1) % c = 0 THEN WireCount(c) ELSE <<>>) \o WireField(vals[i]) \o WireRows(c, vals, i + 1)

WireStream(c, vals) == WireHeader \o WireRows(c, vals, 1) \o WireFooter

\* the sink calls that deliver vals: one per value, in order
ExpectedCalls(vals) ==
    [i \in 1..Len(vals) |->
        IF vals[i].kind = "null" THEN SinkCall("null", <<>>, TRUE)
        ELSE SinkCall("value", vals[i].bytes, TRUE)]

\* the source yields whole rows of a schema with at least one column
WholeRows == types_len >= 1 /\ Len(values) % types_len = 0

----------------------------------------------------------------------------
(* Claims *)

\* C1: round trip. For a schema of at least one column and a value sequence of
\* whole rows, once the complete encoder output has been offered to a fresh
\* decoder and consumed, the sink has received exactly one call per value, in
\* row-major order (null path for a null, value path with the payload bytes
\* otherwise), no call failed, and the decoder is in Done; until then the
\* calls made are a prefix of those.
C1_RoundTrip ==
    (stream # <<>> /\ WholeRows) =>
        /\ ~w_failed /\ ~w_panicked
        /\ Len(calls) <= Len(values)
        /\ calls = SubSeq(ExpectedCalls(values), 1, Len(calls))
        /\ chunk = <<>> => (calls = ExpectedCalls(values) /\ w_state = Done)

C1_Witness ==
    /\ stream # <<>> /\ chunk = <<>>
    /\ types_len = 2 /\ Len(values) = 4
    /\ values[2].kind = "null" /\ values[3] = BytesValue(<<7>>)
    /\ calls = ExpectedCalls(values)
    /\ w_state = Done

\* C8: encoder wire layout. For a schema of c >= 1 columns and a source of
\* r*c values, once read_with_info has returned 0 for a non-empty destination
\* the bytes returned so far are exactly the 19-byte header, then per row the
\* 2-byte count c and its c fields, then the 2-byte footer -1.
C8_WireLayout == (r_eof /\ WholeRows) => output = WireStream(types_len, values)

C8_Witness ==
    /\ r_eof /\ types_len = 2 /\ Len(values) = 4
    /\ values[1].kind = "null" /\ values[4] = BytesValue(<<7>>)
    /\ output = WireStream(2, values)

\* C9: encoder end of stream. A read_with_info call made when the state is
\* Footer and the staged footer is fully delivered returns Ok(0) with no
\* bytes, for every destination size, and leaves the state Footer.
C9_EndOfStream ==
    (r_last.called /\ r_last.pre.state = ReadFooter /\ r_last.pre.pos = r_last.pre.len) =>
        /\ r_last.res = Ok(0)
        /\ r_last.out = <<>>
        /\ r_state = ReadFooter

C9_Witness ==
    /\ r_last.called /\ r_last.pre.state = ReadFooter /\ r_last.pre.len = 0
    /\ r_last.dest = 4096
    /\ r_last.res = Ok(0)

\* C10: length prefix. Right after a refill that staged a value, the 4 bytes
\* at the field's start read back as the number of payload bytes that follow,
\* which are the value's bytes; for a null value they read back as -1 and
\* nothing follows them.
C10_LengthPrefix ==
    (r_last.called /\ r_last.filled /\ r_last.op.kind = "Value" /\ r_last.res.kind = "Ok") =>
        LET len_pos == IF r_last.op.idx = 0 THEN 2 ELSE 0
            prefix == ReadI32(SubSeq(r_buf, len_pos + 1, len_pos + 4))
            payload == SubSeq(r_buf, len_pos + 5, Len(r_buf))
        IN  /\ Len(r_buf) >= len_pos + 4
            /\ IF r_last.op.value.kind = "null"
               THEN prefix = -1 /\ payload = <<>>
               ELSE prefix = Len(payload) /\ payload = r_last.op.value.bytes

C10_Witness ==
    /\ r_last.called /\ r_last.filled /\ r_last.res.kind = "Ok"
    /\ r_last.op = OpValue(1, BytesValue(BigPayload))
    /\ SubSeq(r_buf, 1, 4) = <<0, 0, BigLen \div 256, BigLen % 256>>
    /\ Len(r_buf) = 4 + BigLen

\* the reader evaluated the last call's refill as Op::Value(0, _): field 0 of a tuple
LastFilledFieldZero ==
    r_last.called /\ r_last.filled /\ r_last.op.kind = "Value" /\ r_last.op.idx = 0

\* C11: schema-too-wide limit. A refill for field index 0 of a tuple with a
\* column count above 32767 returns the error "value too large to transmit",
\* delivers no byte and leaves nothing staged; with a column count of at most
\* 32767 the first 2 bytes it stages read back as the column count.
C11_TooWide ==
    LastFilledFieldZero =>
        IF types_len > 32767
        THEN r_last.res = Err("value too large to transmit") /\ r_last.out = <<>> /\ r_buf = <<>>
        ELSE Len(r_buf) >= 2 /\ ReadI16(r_buf) = types_len

C11_Witness ==
    /\ LastFilledFieldZero
    /\ types_len = I16_MAX + 1
    /\ r_last.res.kind = "Err"
    /\ output = WireHeader

\* the values the source has handed out so far
Pulled == Len(values) - Len(it)

\* the fields emitted since the last tuple field count, from the state a refill started in
FieldsInTuple(st) == IF st.tag = "Body" THEN st.idx + 1 ELSE 0

\* C12: footer only at a tuple boundary. A refill that stages the footer
\* starts either before any value was pulled or in a state in which the
\* fields emitted since the last tuple field count are a whole tuple.
C12_FooterAtBoundary ==
    (r_last.called /\ r_last.filled /\ r_last.op.kind = "Footer") =>
        \/ r_last.pre.state = ReadHeader
        \/ FieldsInTuple(r_last.pre.state) = types_len

\* C13: field-index invariant. In state Body(idx), 0 <= idx < column count;
\* the n-th value pulled (n from 0) is staged as field n mod column count; no
\* call panics.
C13_FieldIndex ==
    /\ r_state.tag = "Body" => (0 <= r_state.idx /\ r_state.idx < types_len)
    /\ (r_last.called /\ r_last.op.kind = "Value" /\ types_len > 0) =>
            /\ r_last.op.idx = (Pulled - 1) % types_len
            /\ r_last.op.value = values[Pulled]
    /\ r_last.res.kind # "Panic"

\* the bytes of the unit of work an op stands for
WireUnit(op) ==
    CASE op.kind = "Value" ->
            (IF op.idx = 0 THEN WireCount(types_len) ELSE <<>>) \o WireField(op.value)
      [] op.kind = "Footer" -> WireFooter
      [] OTHER -> <<>>

\* C14: staging discipline. A call refills exactly when the cursor is at the
\* end of the staging buffer; a successful refill leaves one unit staged (one
\* field, after the field count when it is field 0, or the footer; nothing
\* once in Footer); a call returns the staged bytes from the cursor on and
\* moves the cursor past them; and as long as no call failed, the bytes
\* returned so far followed by the staged bytes not yet returned are the
\* header, the fields of exactly the values pulled so far and, in state
\* Footer, the footer: whatever destination sizes were used.
C14_Staging ==
    /\ r_last.called => (r_last.filled <=> r_last.pre.pos = r_last.pre.len)
    /\ (r_last.called /\ r_last.filled /\ r_last.res.kind = "Ok") =>
            /\ r_buf = WireUnit(r_last.op)
            /\ r_pos = Len(r_last.out)
    /\ (r_last.called /\ r_last.res.kind = "Ok") =>
            /\ r_last.out = SubSeq(r_buf, r_pos - Len(r_last.out) + 1, r_pos)
            /\ Len(r_last.out) = Min(r_last.dest, Len(r_buf) - (r_pos - Len(r_last.out)))
    /\ ~r_failed =>
            output \o Drop(r_buf, r_pos)
                = WireHeader \o WireRows(types_len, SubSeq(values, 1, Pulled), 1)
                    \o (IF r_state = ReadFooter THEN WireFooter ELSE <<>>)

C14_Witness ==
    /\ r_last.called /\ ~r_last.filled /\ r_last.dest = 3 /\ r_last.pre.pos = 1
    /\ r_state = Body(1) /\ r_pos = 4 /\ Len(r_buf) = 5
    /\ Pulled = 2 /\ Len(values) = 4

\* C17: refilling from the terminal state is a no-op. A refill that starts
\* in state Footer (the source has reported its end and the footer was
\* staged) does not call the value source, leaves the state Footer and
\* stages no bytes.
C17_TerminalRefill ==
    (r_last.called /\ r_last.filled /\ r_last.pre.state = ReadFooter) =>
        /\ ~r_last.pulled
        /\ r_state = ReadFooter
        /\ r_buf = <<>>

\* the last call had a non-empty destination and returned Ok
LastReadSome == r_last.called /\ r_last.dest > 0 /\ r_last.res.kind = "Ok"

\* the footer was staged and its last byte delivered before the last call
FooterDelivered == r_last.pre.state = ReadFooter /\ r_last.pre.pos = r_last.pre.len

\* a call with a non-empty destination returns 0 only once the footer is
\* delivered, the output then ending with the footer, and at least 1 byte before
C21_ZeroOnlyAtEnd ==
    LastReadSome =>
        IF FooterDelivered
        THEN r_last.res.n = 0 /\ Drop(output, Len(output) - 2) = WireFooter
        ELSE r_last.res.n >= 1

\* C21: end-of-stream signal. As long as no call has failed, a call with a
\* non-empty destination returns 0 only if the footer has been completely
\* delivered and at least 1 byte before that; and a caller that keeps
\* reading with a non-empty destination eventually gets 0 or a failure.
C21_EndSignal == [](~r_failed => C21_ZeroOnlyAtEnd) /\ <>(r_eof \/ r_failed)

C21_Witness ==
    /\ LastReadSome /\ r_last.dest = 1 /\ r_last.res = Ok(0)
    /\ r_eof /\ Pulled = 4 /\ it = <<>>
    /\ Drop(output, Len(output) - 2) = WireFooter

----------------------------------------------------------------------------
(* The decoder on its own *)

RECURSIVE Drive(_, _, _, _)
\* the driver's loop on one buffer: offer the unconsumed remainder until it is
\* empty or a call fails
Drive(d, buf, fails, oc) ==
    IF buf = <<>> THEN [d |-> d, res |-> Ok(0)]
    ELSE LET c == WriteWithInfo(d, buf, fails, oc)
         IN  IF c.res.kind # "Ok" THEN c ELSE Drive(c.d, Drop(buf, c.res.n), fails, oc)

\* what a run of the decoder shows: the sink calls, the final state, the error
Outcome(cs, st, res) ==
    [calls |-> cs, state |-> st, error |-> IF res.kind = "Ok" THEN "" ELSE res.kind \o ": " \o res.msg]

\* the driver has nothing left to offer, or stopped at a failure
DriverDone == stream # <<>> /\ ((rest = <<>> /\ chunk = <<>>) \/ w_failed \/ w_panicked)

\* the bytes the last call's read_to brought together
LastAccumulated == Accumulated(w_last.pre, w_last.input)

\* the 4-byte flags field of the header the last call accumulated
LastFlags == ReadI32(SubSeq(LastAccumulated, Len(HEADER_MAGIC) + 1, Len(HEADER_MAGIC) + 4))

\* the last call was in AtHeader, matched the signature and had the 4 flag bytes
LastReadFlags ==
    /\ w_last.called
    /\ w_last.pre.state = AtHeader
    /\ Len(LastAccumulated) >= Len(HEADER_MAGIC) + 4
    /\ Take(LastAccumulated, Len(HEADER_MAGIC)) = HEADER_MAGIC

\* the field count the decoder owes the sink for the last tuple header read
OwedFields == last_tuple.count + (IF last_tuple.oids THEN 1 ELSE 0)

\* C2: chunk-size independence. When a driver that re-offers the unconsumed
\* remainder of each chunk has consumed the stream or stopped at a failure,
\* the sink calls, the decoder state and the error are those of the same
\* driver offered the whole stream as one chunk.
C2_ChunkIndependence ==
    (strict /\ DriverDone) =>
        \E whole \in {Drive(NewWriter, stream, sink_fails, overflow_checks)} :
            Outcome(calls, w_state, IF w_failed \/ w_panicked THEN w_last.res ELSE Ok(0))
                = Outcome(whole.d.calls, whole.d.state, whole.res)

\* C3: field-count invariant. After a tuple header with field count c (any
\* value but -1), the decoder is back at the tuple header only when exactly c
\* sink calls (c + 1 with OIDs) were made, and is in a field state only while
\* fewer were made. Stated for runs in which every call was offered the bytes
\* its unit needed and the sink never failed.
C3_FieldCount ==
    (last_tuple.seen /\ ~starved /\ sink_fails = {} /\ ~w_panicked) =>
        /\ w_state = AtTuple => Len(calls) - last_tuple.at = OwedFields
        /\ w_state.tag \in {"AtFieldSize", "AtField"} => Len(calls) - last_tuple.at < OwedFields

\* C4: footer detection. A call in AtTuple whose accumulated 2 bytes are the
\* field count -1 returns Ok, makes no sink call and leaves the state Done; a
\* call in Done, whatever its input, returns Err, makes no sink call and
\* leaves the state Done.
C4_FooterDetection ==
    /\ (w_last.called /\ w_last.pre.state = AtTuple /\ LastAccumulated = <<255, 255>>) =>
            (w_last.res.kind = "Ok" /\ w_state = Done /\ calls = w_last.pre.calls)
    /\ (w_last.called /\ w_last.pre.state = Done) =>
            (w_last.res.kind = "Err" /\ w_state = Done /\ calls = w_last.pre.calls)

C4_Witness ==
    /\ w_last.called /\ w_last.pre.state = Done /\ w_last.input = <<>>
    /\ w_last.res.kind = "Err" /\ w_state = Done
    /\ last_tuple.seen /\ last_tuple.count = -1

\* C5: null sentinel fidelity. A call in AtFieldSize(remaining) whose
\* accumulated 4 bytes are the length -1, with a sink that accepts the call,
\* makes exactly one sink call, on the null path, takes only the bytes the
\* length still needed and moves to AtTuple if remaining = 1, else to
\* AtFieldSize(remaining - 1).
C5_NullSentinel ==
    (/\ w_last.called /\ w_last.pre.state.tag = "AtFieldSize"
     /\ LastAccumulated = <<255, 255, 255, 255>>
     /\ SinkOk(w_last.pre, sink_fails)) =>
        /\ calls = Append(w_last.pre.calls, SinkCall("null", <<>>, TRUE))
        /\ w_last.res = Ok(4 - Len(w_last.pre.buf))
        /\ w_state = IF w_last.pre.state.remaining = 1 THEN AtTuple
                     ELSE AtFieldSize(w_last.pre.state.remaining - 1)

\* C6: bad header. The first call on a fresh decoder, with non-empty input of
\* any size, of a stream whose first 11 bytes are not the signature returns
\* the format error and makes no sink call.
C6_BadHeader ==
    (/\ w_last.called /\ w_last.first /\ w_last.input # <<>>
     /\ Len(stream) >= Len(HEADER_MAGIC) /\ Take(stream, Len(HEADER_MAGIC)) # HEADER_MAGIC) =>
        /\ w_last.res = Err("Did not receive expected header")
        /\ calls = <<>>
        /\ w_state = AtHeader

\* C7 as stated: after a valid signature, a flags field with any bit other
\* than bit 16 set is rejected and the decoder does not reach AtTuple.
C7_AnyOtherBitRejected ==
    (LastReadFlags /\ \E k \in (0..31) \ {16} : BitOf(LastFlags, k) = 1) =>
        (w_last.res.kind = "Err" /\ w_state # AtTuple)

\* C7 as amended: after a valid signature and with the 4 flag bytes read,
\* has_oids is bit 16 of the flags; the header is rejected, the state staying
\* AtHeader, exactly when one of bits 17..31 is set; bits 0..15 are ignored.
C7_CriticalBitsRejected ==
    LastReadFlags =>
        /\ has_oids = (BitOf(LastFlags, 16) = 1)
        /\ IF \E k \in 17..31 : BitOf(LastFlags, k) = 1
           THEN w_last.res.kind = "Err" /\ w_state = AtHeader
           ELSE w_last.res.kind = "Ok" /\ w_state = AtTuple

C7_Witness ==
    /\ LastReadFlags
    /\ LastFlags = OidsBit + 8
    /\ has_oids /\ w_state = AtTuple /\ w_last.res.kind = "Ok"

\* the bytes the unit of the last call's state still needed before the call
\* (a negative size stands for a usize above any input length)
LastMissing == UnitSize(w_last.pre.state) - Len(w_last.pre.buf)

\* C15: consumption bound. A successful call in a state other than Done
\* returns n = min(bytes the unit still needed, input length); the staging
\* buffer then is empty if the state changed (the unit completed) and else
\* the old buffer followed by the first n input bytes; and the staging
\* buffer never holds more bytes than the unit of the current state. In a
\* payload state the bytes the sink is shown are the old buffer followed by
\* the first n input bytes.
C15_ConsumptionBound ==
    /\ (w_last.called /\ w_last.res.kind = "Ok" /\ w_last.pre.state # Done) =>
            \E n \in {IF UnitSize(w_last.pre.state) < 0 THEN Len(w_last.input)
                       ELSE Min(LastMissing, Len(w_last.input))} :
                /\ w_last.res.n = n
                /\ w_buf = IF w_state # w_last.pre.state THEN <<>>
                           ELSE w_last.pre.buf \o Take(w_last.input, n)
                /\ w_last.pre.state.tag = "AtField" =>
                        /\ Len(calls) = Len(w_last.pre.calls) + 1
                        /\ calls[Len(calls)].bytes = w_last.pre.buf \o Take(w_last.input, n)
    /\ (UnitSize(w_state) >= 0 /\ ~w_panicked) => Len(w_buf) <= UnitSize(w_state)

C15_Witness ==
    /\ w_last.called /\ w_last.res = Ok(2)
    /\ w_last.pre.state = AtField(2, 1) /\ w_last.pre.buf = <<>>
    /\ Len(w_last.input) > 2
    /\ w_buf = <<>>
    /\ calls[Len(calls)] = SinkCall("value", <<1, 2>>, TRUE)

\* the 4-byte signed field length the last call accumulated
LastFieldLength == ReadI32(LastAccumulated)

\* C16: field length. A call in AtFieldSize that has read a length L other
\* than -1 leaves the state AtField with size = L, a non-negative byte
\* count; a successful call in AtField(size) makes exactly one sink call, on
\* the value path, with a view of exactly size bytes. Stated for runs in
\* which every call was offered the bytes its unit needed.
C16_FieldLength ==
    /\ (/\ w_last.called /\ ~starved /\ w_last.pre.state.tag = "AtFieldSize"
        /\ w_last.res.kind = "Ok" /\ LastFieldLength # -1) =>
            /\ w_state = AtField(LastFieldLength, w_last.pre.state.remaining)
            /\ w_state.size >= 0
    /\ (/\ w_last.called /\ ~starved /\ w_last.pre.state.tag = "AtField"
        /\ w_last.res.kind = "Ok") =>
            /\ calls = Append(w_last.pre.calls, SinkCall("value", LastAccumulated, TRUE))
            /\ Len(LastAccumulated) = w_last.pre.state.size

\* valid header, tuples with a field count >= 1 and field lengths >= -1, footer
WellFormed(s) == s \in {Header(0) \o b : b \in GoodBodies}

\* C18: termination. For a well-formed stream cut into non-empty chunks and a
\* sink that accepts every call, a driver that offers the unconsumed
\* remainder of each chunk never sees a call fail or panic, and once it has
\* nothing left to offer the decoder is in Done, with every byte of the
\* stream counted in the values returned.
C18_Termination ==
    (strict /\ WellFormed(stream) /\ sink_fails = {}) =>
        /\ ~w_failed /\ ~w_panicked
        /\ (rest = <<>> /\ chunk = <<>>) => w_state = Done

\* C19: format errors are sticky. Once a call has failed with a bad
\* signature, a rejected flag bit or input after the footer, every later call,
\* whatever its input, fails too, and the sink receives no call from then on.
C19_StickyFormatError ==
    fatal.set =>
        /\ w_last.res.kind = "Err"
        /\ Len(calls) = fatal.at

C19_Witness ==
    /\ fatal.set
    /\ w_last.called /\ w_last.pre.state = AtHeader /\ Len(w_last.pre.buf) = HeaderSize - 4
    /\ Len(w_buf) = HeaderSize
    /\ w_last.res = Err("Critical file format issue")
    /\ calls = <<>>

\* C20: remaining-field counter. In every reachable state AtFieldSize(remaining)
\* or AtField{size, remaining}, 1 <= remaining <= 32768 (a negative number
\* here stands for a usize of 2^64 less its magnitude, above 32768), and no
\* call panics computing remaining - 1.
C20_RemainingCounter ==
    /\ w_state.tag \in {"AtFieldSize", "AtField"} =>
            (1 <= w_state.remaining /\ w_state.remaining <= 32768)
    /\ ~(w_panicked /\ w_last.res = Panic("attempt to subtract with overflow"))

\* the last call failed with a format error or with an error of the sink
LastFailed ==
    /\ w_last.called
    /\ w_last.res.kind = "Err"
    /\ w_last.res.msg \in FormatErrors \cup {"sink"}

\* C22: a failing call keeps the progress state. After a call that failed
\* with a bad signature, a rejected flag bit, an error of the sink's null or
\* value path, or input after the footer, the state, with the remaining-field
\* count and the payload size it carries, is the one before the call; a
\* failed sink call is the only sink call of that call.
C22_FailureKeepsState ==
    LastFailed =>
        /\ w_state = w_last.pre.state
        /\ IF w_last.res.msg = "sink"
           THEN /\ Len(calls) = Len(w_last.pre.calls) + 1
                /\ ~calls[Len(calls)].ok
           ELSE calls = w_last.pre.calls

C22_Witness ==
    /\ LastFailed /\ w_last.res.msg = "sink"
    /\ w_last.pre.state = AtField(2, 1)
    /\ w_state = AtField(2, 1)
    /\ calls[Len(calls)] = SinkCall("value", <<1, 2>>, FALSE)

=============================================================================
